---- MODULE Spec2Model ----
(***************************************************************************)
(* A model of cluster-diagnosis/utils.py: the ordered check orchestration  *)
(* (ModuleCheck, ModuleCheckGroup) and the pod status sampler              *)
(* (get_pods_summarized_status_iterator) with the two kubectl queries it   *)
(* issues (get_pods_status_iterator_by_labels, get_pod_status).            *)
(*                                                                         *)
(* The kubectl commands themselves are the environment: the model draws    *)
(* their exit status and their (already split) output lines from small     *)
(* sets and applies the code of utils.py to them.                          *)
(***************************************************************************)
EXTENDS Integers, Sequences, FiniteSets

(***************************************************************************)
(* Bounds of the model.                                                    *)
(***************************************************************************)
\* Number of distinct pod names the cluster can show during a session.
MaxPods == 2

\* Pod names are represented by the numbers 1..MaxPods.
PodNames == 1 .. MaxPods

(***************************************************************************)
(* Program constants.                                                      *)
(***************************************************************************)
STATUS_RUNNING == "Running"

STATUS_NOT_RUNNING == "Not Running"

\* A loop one round short.
SamplerAttemptsAlt == 5 - 1

\* for attempt in range(0, 5)
SamplerAttempts == 5

\* time.sleep(2)
SleepDelay == 2

(***************************************************************************)
(* PodStatus: the namedtuple 'name ready_status status node_name namespace'*)
(***************************************************************************)
PodStatus(name, ready_status, status, node_name, namespace) ==
    [name |-> name, ready_status |-> ready_status, status |-> status,
     node_name |-> node_name, namespace |-> namespace]

\* The value of a name that holds no PodStatus (Python's None).
NoPod == PodStatus(0, "", "", "", "")

(***************************************************************************)
(* What kubectl can answer.  A line is the tuple of its five fields, as    *)
(* line.split(' ') gives them.                                             *)
(***************************************************************************)
\* <<ready, phase, node>> as the selector query prints them for a pod.
LineVariants == {<<"1/1", "Running", "node-a">>, <<"0/1", "Pending", "node-b">>}

SelectorLine(n, v) == <<n, v[1], v[2], v[3], "kube-system">>

\* Phases the identity query can print.
IdPhases == {"Running", "CrashLoopBackOff"}

IdentityLine(n, phase) == <<n, "1/1", phase, "node-a", "kube-system">>

Min(S) == CHOOSE x \in S : \A y \in S : x <= y

RECURSIVE LinesOf(_, _)
\* The output lines for the pods of S, pod n printed as variant f[n].
LinesOf(S, f) ==
    IF S = {} THEN <<>>
    ELSE LET n == Min(S)
         IN  <<SelectorLine(n, f[n])>> \o LinesOf(S \ {n}, f)

RECURSIVE NamesOf(_)
\* The output lines of the host filter command: one pod name per line.
NamesOf(S) ==
    IF S = {} THEN <<>>
    ELSE LET n == Min(S) IN <<n>> \o NamesOf(S \ {n})

\* The pods the host filter command can list.  The sampler passes an empty
\* host filter, which matches every pod of the cluster: the list lacks a pod
\* of the selector's output only if that pod went away in between.
FilterAnswers == {PodNames, {}} \cup {PodNames \ {n} : n \in PodNames}

\* Every outcome of the two commands of the selector query.
SelectorAnswers ==
    {[ok |-> FALSE, output |-> <<>>, filter_ok |-> TRUE, filter_output |-> <<>>]}
    \cup
    {[ok |-> TRUE, output |-> <<>>, filter_ok |-> TRUE, filter_output |-> <<>>]}
    \cup
    UNION {UNION {{[ok |-> TRUE, output |-> LinesOf(S, f),
                    filter_ok |-> FALSE, filter_output |-> <<>>]}
                  \cup
                  {[ok |-> TRUE, output |-> LinesOf(S, f),
                    filter_ok |-> TRUE, filter_output |-> NamesOf(F)]
                      : F \in FilterAnswers}
                  : f \in [S -> LineVariants]}
           : S \in (SUBSET PodNames) \ {{}}}

\* Every outcome of the command of the identity query for pod n.
IdentityAnswers(n) ==
    {[ok |-> FALSE, output |-> <<>>], [ok |-> TRUE, output |-> <<>>]}
    \cup {[ok |-> TRUE, output |-> IdentityLine(n, ph)] : ph \in IdPhases}

(***************************************************************************)
(* get_pod_status: the identity query.                                     *)
(*   exc    - the exception raised ("none": it returned)                   *)
(*   isNone - it returned None (the bare return after a failed command)    *)
(***************************************************************************)
\* An identity query that raises RuntimeError for a failed command too, as
\* get_resource_status does.
get_pod_status_raises_on_failure(answer) ==
    IF ~answer.ok \/ answer.output = <<>>
    THEN [exc |-> "RuntimeError", isNone |-> FALSE, pod |-> NoPod,
          log |-> <<"error">>]
    ELSE [exc |-> "none", isNone |-> FALSE,
          pod |-> PodStatus(answer.output[1], answer.output[2],
                            answer.output[3], answer.output[4],
                            answer.output[5]),
          log |-> <<>>]

get_pod_status(answer) ==
    IF ~answer.ok
    THEN [exc |-> "none", isNone |-> TRUE, pod |-> NoPod,
          log |-> <<"error">>]
    ELSE IF answer.output = <<>>
    THEN [exc |-> "RuntimeError", isNone |-> FALSE, pod |-> NoPod,
          log |-> <<"error">>]
    ELSE [exc |-> "none", isNone |-> FALSE,
          pod |-> PodStatus(answer.output[1], answer.output[2],
                            answer.output[3], answer.output[4],
                            answer.output[5]),
          log |-> <<>>]

(***************************************************************************)
(* get_pods_status_iterator_by_labels: the selector query.  A generator:   *)
(* its body runs when the caller asks for the first item, so an exception  *)
(* of the body is raised in the caller's for statement.                    *)
(*   exc  - the exception raised ("none": the generator finished)          *)
(*   pods - the PodStatus values it yields, in order                       *)
(*   log  - the levels of the log entries it makes                         *)
(***************************************************************************)
InList(x, list) == \E i \in 1 .. Len(list) : list[i] = x

RECURSIVE FilteredPods(_, _)
\* for line in output.splitlines(): skip names not in filtered_pod_list
FilteredPods(output, filtered_pod_list) ==
    IF output = <<>> THEN <<>>
    ELSE LET split_line == Head(output)
             rest == FilteredPods(Tail(output), filtered_pod_list)
         IN  IF ~InList(split_line[1], filtered_pod_list)
             THEN rest
             ELSE <<PodStatus(split_line[1], split_line[2], split_line[3],
                              split_line[4], split_line[5])>> \o rest

\* The selector query without the return of its first except clause: the
\* decode() that follows reads a local that was never bound.
get_pods_status_iterator_by_labels_no_return(answer, must_exist) ==
    IF ~answer.ok
    THEN [exc |-> "UnboundLocalError", pods |-> <<>>, log |-> <<"error">>]
    ELSE IF answer.output = <<>>
    THEN [exc |-> "none", pods |-> <<>>,
          log |-> IF must_exist THEN <<"error">> ELSE <<>>]
    ELSE IF ~answer.filter_ok
    THEN [exc |-> "UnboundLocalError", pods |-> <<>>, log |-> <<"error">>]
    ELSE IF answer.filter_output = <<>>
    THEN [exc |-> "none", pods |-> <<>>,
          log |-> IF must_exist THEN <<"error">> ELSE <<>>]
    ELSE [exc |-> "none",
          pods |-> FilteredPods(answer.output, answer.filter_output),
          log |-> <<>>]

\* The selector query with the must_exist tests left out: it logs whenever
\* nothing is printed.
get_pods_status_iterator_by_labels_always_logs(answer, must_exist) ==
    IF ~answer.ok
    THEN [exc |-> "none", pods |-> <<>>, log |-> <<"error">>]
    ELSE IF answer.output = <<>>
    THEN [exc |-> "none", pods |-> <<>>, log |-> <<"error">>]
    ELSE IF ~answer.filter_ok
    THEN [exc |-> "UnboundLocalError", pods |-> <<>>, log |-> <<"error">>]
    ELSE IF answer.filter_output = <<>>
    THEN [exc |-> "none", pods |-> <<>>, log |-> <<"error">>]
    ELSE [exc |-> "none",
          pods |-> FilteredPods(answer.output, answer.filter_output),
          log |-> <<>>]

get_pods_status_iterator_by_labels(answer, must_exist) ==
    IF ~answer.ok
    THEN [exc |-> "none", pods |-> <<>>, log |-> <<"error">>]
    ELSE IF answer.output = <<>>
    THEN [exc |-> "none", pods |-> <<>>,
          log |-> IF must_exist THEN <<"error">> ELSE <<>>]
    ELSE IF ~answer.filter_ok
    \* the except clause only logs; filter_output.decode() then reads a
    \* local that was never bound
    THEN [exc |-> "UnboundLocalError", pods |-> <<>>, log |-> <<"error">>]
    ELSE IF answer.filter_output = <<>>
    THEN [exc |-> "none", pods |-> <<>>,
          log |-> IF must_exist THEN <<"error">> ELSE <<>>]
    ELSE [exc |-> "none",
          pods |-> FilteredPods(answer.output, answer.filter_output),
          log |-> <<>>]

(***************************************************************************)
(* get_pods_summarized_status_iterator: the sampler.                       *)
(***************************************************************************)
VARIABLES
    pc,              \* where the sampler is: "round", "pods", "yield",
                     \* "done" (StopIteration) or "raised"
    attempt,         \* the loop variable of for attempt in range(0, 5)
    pod_status_map,  \* the dict of the session: pod name -> PodStatus
    pending,         \* the items the selector generator has yet to yield
    yielded,         \* the PodStatus values yielded to the caller, in order
    exc,             \* the exception that left the sampler, or "none"
    clock,           \* the time, advanced by time.sleep
    stdout,          \* what was written to sys.stdout
    \* History of the session, read by the properties only.
    queryTimes,      \* the clock at each selector query
    sel,             \* the outcome of the selector command of the round in
                     \* progress ("none" between rounds), and of the last
                     \* round once the rounds are over
    observed,        \* the names the selector query has yielded so far
    idSeen,          \* per name, the non-nominal answers of its identity queries
    idFailed,        \* an identity command has failed outright
    lastId           \* the last pod of the round in progress: its name, the
                     \* phase the selector query printed for it (pod_status)
                     \* and what its identity command answered (name 0
                     \* before the first pod of a round)

samplerVars ==
    <<pc, attempt, pod_status_map, pending, yielded, exc, clock, stdout,
      queryTimes, sel, observed, idSeen, idFailed, lastId>>

NoLastId == [name |-> 0, phase |-> "", kind |-> ""]

\* The empty dict.
EmptyMap == [n \in {} |-> NoPod]

\* An assignment that starts the dict afresh.
MapPutFresh(map, key, value) ==
    [n \in {key} |-> value]

\* pod_status_map[key] = value
MapPut(map, key, value) ==
    [n \in DOMAIN map \cup {key} |-> IF n = key THEN value ELSE map[n]]

\* What the two commands of the selector query did, read off their answer.
SelKind(answer) ==
    IF ~answer.ok THEN "failed"
    ELSE IF answer.output = <<>> THEN "empty"
    ELSE IF ~answer.filter_ok THEN "filter_failed"
    ELSE IF answer.filter_output = <<>> THEN "filter_empty"
    ELSE "pods"

\* What the identity command answered, read off its answer.
IdKind(answer) ==
    IF ~answer.ok THEN "failed"
    ELSE IF answer.output = <<>> THEN "NotFound"
    ELSE answer.output[3]

SamplerInit ==
    /\ pc = "round"
    /\ attempt = 0
    /\ pod_status_map = EmptyMap
    /\ pending = <<>>
    /\ yielded = <<>>
    /\ exc = "none"
    /\ clock = 0
    /\ stdout = <<>>
    /\ queryTimes = <<>>
    /\ sel = "none"
    /\ observed = {}
    /\ idSeen = [n \in PodNames |-> {}]
    /\ idFailed = FALSE
    /\ lastId = NoLastId

\* The top of the loop body: the progress dot, then the selector query
\* get_pods_status_iterator_by_labels(label_selector, [], False).
SelectorQuery ==
    /\ pc = "round"
    /\ attempt < SamplerAttempts
    /\ \E answer \in SelectorAnswers :
         LET res == get_pods_status_iterator_by_labels(answer, FALSE)
         IN  /\ stdout' = Append(stdout, ".")
             /\ queryTimes' = Append(queryTimes, clock)
             /\ sel' = SelKind(answer)
             /\ IF res.exc # "none"
                THEN /\ pc' = "raised"
                     /\ exc' = res.exc
                     /\ pending' = <<>>
                ELSE /\ pc' = "pods"
                     /\ exc' = exc
                     /\ pending' = res.pods
    /\ UNCHANGED <<attempt, pod_status_map, yielded, clock, observed, idSeen,
                   idFailed, lastId>>

\* A verdict that keeps the phase the selector query printed.
StatusVerdictFromSelector(res, pod_status) ==
    IF res.exc = "RuntimeError" THEN STATUS_NOT_RUNNING
    ELSE pod_status.status

\* A verdict that leaves STATUS_RUNNING in place when the identity query
\* raises.
StatusVerdictIgnoresNotFound(res, pod_status) ==
    IF res.exc = "RuntimeError" THEN STATUS_RUNNING
    ELSE IF res.pod.status # STATUS_RUNNING THEN res.pod.status
    ELSE STATUS_RUNNING

\* The status the round records for a pod, from the result of its identity
\* query (the try statement of the loop body).
StatusVerdict(res, pod_status) ==
    IF res.exc = "RuntimeError" THEN STATUS_NOT_RUNNING
    ELSE IF res.pod.status # STATUS_RUNNING THEN res.pod.status
    ELSE STATUS_RUNNING

\* The body of the inner loop for one pod_status of the selector query.
ProcessPod ==
    /\ pc = "pods"
    /\ pending # <<>>
    /\ LET pod_status == Head(pending)
       IN  \E answer \in IdentityAnswers(pod_status.name) :
             LET res == get_pod_status(answer)
             IN  /\ observed' = observed \cup {pod_status.name}
                 /\ idFailed' = (idFailed \/ IdKind(answer) = "failed")
                 /\ lastId' = [name |-> pod_status.name,
                               phase |-> pod_status.status,
                               kind |-> IdKind(answer)]
                 /\ idSeen' =
                      IF IdKind(answer) \in {"failed", STATUS_RUNNING}
                      THEN idSeen
                      ELSE [idSeen EXCEPT ![pod_status.name] =
                                              @ \cup {IdKind(answer)}]
                 /\ IF res.exc = "none" /\ res.isNone
                    \* temp_pod_status.status on None: AttributeError, which
                    \* except RuntimeError does not catch
                    THEN /\ pc' = "raised"
                         /\ exc' = "AttributeError"
                         /\ pending' = <<>>
                         /\ pod_status_map' = pod_status_map
                    ELSE /\ pc' = pc
                         /\ exc' = exc
                         /\ pending' = Tail(pending)
                         /\ pod_status_map' =
                              MapPut(pod_status_map, pod_status.name,
                                     PodStatus(pod_status.name,
                                               pod_status.ready_status,
                                               StatusVerdict(res, pod_status),
                                               pod_status.node_name,
                                               pod_status.namespace))
    /\ UNCHANGED <<attempt, yielded, clock, stdout, queryTimes, sel>>

\* The selector generator is exhausted: time.sleep(2), next attempt.
Sleep ==
    /\ pc = "pods"
    /\ pending = <<>>
    /\ clock' = clock + SleepDelay
    /\ attempt' = attempt + 1
    /\ pc' = "round"
    /\ sel' = IF attempt + 1 < SamplerAttempts THEN "none" ELSE sel
    /\ lastId' = NoLastId
    /\ UNCHANGED <<pod_status_map, pending, yielded, exc, stdout, queryTimes,
                   observed, idSeen, idFailed>>

\* range(0, 5) is exhausted: the line break, then the final loop starts.
EndRounds ==
    /\ pc = "round"
    /\ attempt >= SamplerAttempts
    /\ stdout' = Append(stdout, "\n")
    /\ pc' = "yield"
    /\ UNCHANGED <<attempt, pod_status_map, pending, yielded, exc, clock,
                   queryTimes, sel, observed, idSeen, idFailed, lastId>>

\* The names of the dict the final loop has not reached yet.
Remaining == {n \in DOMAIN pod_status_map :
                 \A i \in 1 .. Len(yielded) : yielded[i].name # n}

\* A final loop that returns after its first item.
YieldRecordThenReturn ==
    /\ pc = "yield"
    /\ \E pod_name \in Remaining :
         yielded' = Append(yielded, pod_status_map[pod_name])
    /\ pc' = "done"
    /\ UNCHANGED <<attempt, pod_status_map, pending, exc, clock, stdout,
                   queryTimes, sel, observed, idSeen, idFailed, lastId>>

\* for pod_name in pod_status_map: yield pod_status_map[pod_name]
\* (the order of a dict's keys is not fixed by the language version used)
YieldRecord ==
    /\ pc = "yield"
    /\ \E pod_name \in Remaining :
         yielded' = Append(yielded, pod_status_map[pod_name])
    /\ UNCHANGED <<pc, attempt, pod_status_map, pending, exc, clock, stdout,
                   queryTimes, sel, observed, idSeen, idFailed, lastId>>

\* The final loop is exhausted: the generator finishes.
SamplerReturn ==
    /\ pc = "yield"
    /\ Remaining = {}
    /\ pc' = "done"
    /\ UNCHANGED <<attempt, pod_status_map, pending, yielded, exc, clock,
                   stdout, queryTimes, sel, observed, idSeen,
                   idFailed, lastId>>

(***************************************************************************)
(* ModuleCheck and ModuleCheckGroup: the check orchestration.              *)
(***************************************************************************)
\* Number of members a group's list can hold.
MaxChecks == 3

\* The ModuleCheck objects; a check's summary (its name) is its identifier.
CheckIds == {"c1", "c2"}

\* The ModuleCheckGroup objects.  H can be a member of G.
GroupIds == {"G", "H"}

\* What can be added to a group.
Members(g) == IF g = "G" THEN CheckIds \cup {"H"} ELSE CheckIds

\* What a check_cb call can come to: a Python value it returns, or "raise".
CbResults == {"True", "False", "None", "1", "raise"}

\* Python's "not value" for the values of CbResults.
PyNot(value) == value \in {"False", "None"}

\* ModuleCheck.get_title
CheckTitle(name) == "-- " \o name \o " --"

\* ModuleCheckGroup.get_title
GroupTitle(name) == "== " \o name \o " =="

Title(m) == IF m \in GroupIds THEN GroupTitle(m) ELSE CheckTitle(m)

\* One entry of the trace: a log record (kind "info" or "error", arg the
\* message), a call (kind "check_cb", "success_cb" or "failure_cb", arg the
\* check) or the return of a ModuleCheck.run (kind "return", arg the value).
Ev(kind, arg) == [kind |-> kind, arg |-> arg]

\* A success hook that logs nothing.
success_cb_silent(c) == <<Ev("success_cb", c)>>

\* ModuleCheck.success_cb
success_cb(c) == <<Ev("success_cb", c), Ev("info", "-- Success --\n")>>

\* ModuleCheck.failure_cb
failure_cb(c) == <<Ev("failure_cb", c), Ev("error", "-- Failure --\n")>>

\* A run() that returns what check_cb returned.
ModuleCheck_run_returns_value(c, value) ==
    IF PyNot(value)
    THEN [events |-> failure_cb(c), ret |-> value]
    ELSE [events |-> success_cb(c), ret |-> value]

\* ModuleCheck.run from the value check_cb returned: the hook, the result.
ModuleCheck_run(c, value) ==
    IF PyNot(value)
    THEN [events |-> failure_cb(c), ret |-> "False"]
    ELSE [events |-> success_cb(c), ret |-> "True"]

\* A loop that no result ends.
MemberFailedNever(result) == FALSE

\* ModuleCheckGroup.run, "if not check.run(): return False": whether the
\* result of a member ends the loop.
MemberFailed(result) == PyNot(result)

VARIABLES
    checks,     \* per group: its checks attribute ("absent": the group is not
                \* constructed yet; "None"; or "list", with the items)
    stack,      \* the run() calls in progress, innermost last
    ret,        \* the value the latest finished run() returned, "none" once
                \* the caller has consumed it
    status,     \* of the top-level run(): "pending", "running", "succeeded"
                \* (returned True), "failed" (returned False), "raised"
    checkExc,   \* the exception that left the top-level run(), or "none"
    trace,      \* the log records and the callback calls, in order
    cbval,      \* the value the latest check_cb call returned ("raise": it
                \* raised), or "none"
    prev        \* the earlier top-level runs of the same check: how many
                \* (n), the hook calls they made in all (total), and of the
                \* latest of them the check_cb value, the result, the hooks

checksVars == <<checks, stack, ret, status, checkExc, trace, cbval, prev>>

Frame(m) == [kind |-> IF m \in GroupIds THEN "group" ELSE "check",
             id |-> m, i |-> 1]

Top == stack[Len(stack)]

Pop == SubSeq(stack, 1, Len(stack) - 1)

ChecksInit ==
    /\ checks = [g \in GroupIds |-> [state |-> "absent", items |-> <<>>]]
    /\ stack = <<>>
    /\ ret = "none"
    /\ status = "pending"
    /\ checkExc = "none"
    /\ trace = <<>>
    /\ cbval = "none"
    /\ prev = [n |-> 0, total |-> 0, cbval |-> "none", ret |-> "none",
               hooks |-> <<>>]

\* ModuleCheckGroup.__init__(name, checks): without a checks argument
\* (None), or with an empty list.
GroupInit ==
    /\ status = "pending"
    /\ \E g \in GroupIds, withList \in BOOLEAN :
         /\ checks[g].state = "absent"
         /\ checks' = [checks EXCEPT ![g] =
                          [state |-> IF withList THEN "list" ELSE "None",
                           items |-> <<>>]]
    /\ UNCHANGED <<stack, ret, status, checkExc, trace, cbval>>
    /\ UNCHANGED prev

\* ModuleCheckGroup.add(check)
add ==
    /\ status = "pending"
    /\ \E g \in GroupIds :
         /\ checks[g].state # "absent"
         /\ Len(checks[g].items) < MaxChecks
         /\ \E m \in Members(g) :
              /\ m \in GroupIds => checks[m].state # "absent"
              /\ checks' = [checks EXCEPT ![g] =
                               [state |-> "list",
                                items |-> Append(checks[g].items, m)]]
    /\ UNCHANGED <<stack, ret, status, checkExc, trace, cbval>>
    /\ UNCHANGED prev

\* A caller outside the module calls run() on a check or on group G.  The
\* first statement of either run() logs the title.  ModuleCheck.run reads
\* no group, so a check is run on its own from the state without groups.
Run ==
    /\ status = "pending"
    /\ \E t \in CheckIds \cup {"G"} :
         /\ t \in GroupIds => checks[t].state # "absent"
         /\ t \in CheckIds => \A g \in GroupIds : checks[g].state = "absent"
         /\ stack' = <<Frame(t)>>
         /\ trace' = Append(trace, Ev("info", Title(t)))
    /\ status' = "running"
    /\ UNCHANGED <<checks, ret, checkExc, cbval>>
    /\ UNCHANGED prev

\* A run() that catches what check_cb raises and reports a failure.
CheckBodyCatches ==
    /\ status = "running"
    /\ stack # <<>>
    /\ Top.kind = "check"
    /\ \E value \in CbResults :
         LET res == ModuleCheck_run(Top.id, IF value = "raise" THEN "False"
                                                              ELSE value)
         IN  /\ trace' = Append(trace, Ev("check_cb", Top.id))
                            \o res.events
                            \o <<Ev("return", res.ret)>>
             /\ cbval' = value
             /\ ret' = res.ret
             /\ stack' = Pop
             /\ UNCHANGED <<status, checkExc>>
    /\ UNCHANGED checks
    /\ UNCHANGED prev

\* ModuleCheck.run after its title: the check_cb call, the hook, the return.
CheckBody ==
    /\ status = "running"
    /\ stack # <<>>
    /\ Top.kind = "check"
    /\ \E value \in CbResults :
         IF value = "raise"
         \* nothing in run() catches: the exception leaves every run()
         THEN /\ trace' = Append(trace, Ev("check_cb", Top.id))
              /\ stack' = <<>>
              /\ status' = "raised"
              /\ checkExc' = "CheckLogicError"
              /\ cbval' = "raise"
              /\ UNCHANGED ret
         ELSE LET res == ModuleCheck_run(Top.id, value)
              IN  /\ trace' = Append(trace, Ev("check_cb", Top.id))
                                 \o res.events
                                 \o <<Ev("return", res.ret)>>
                  /\ cbval' = value
                  /\ ret' = res.ret
                  /\ stack' = Pop
                  /\ UNCHANGED <<status, checkExc>>
    /\ UNCHANGED checks
    /\ UNCHANGED prev

\* ModuleCheckGroup.run: the for statement takes the next member and calls
\* its run(), or finds the list exhausted and returns True.
GroupNext ==
    /\ status = "running"
    /\ stack # <<>>
    /\ Top.kind = "group"
    /\ ret = "none"
    /\ LET g == Top.id
           items == checks[g].items
       IN  IF checks[g].state = "None"
           \* for check in None: TypeError
           THEN /\ stack' = <<>>
                /\ status' = "raised"
                /\ checkExc' = "TypeError"
                /\ UNCHANGED <<ret, trace>>
           ELSE IF Top.i > Len(items)
           THEN /\ stack' = Pop
                /\ ret' = "True"
                /\ UNCHANGED <<status, checkExc, trace>>
           ELSE /\ stack' = Append([stack EXCEPT ![Len(stack)].i = @ + 1],
                                   Frame(items[Top.i]))
                /\ trace' = Append(trace, Ev("info", Title(items[Top.i])))
                /\ UNCHANGED <<ret, status, checkExc>>
    /\ UNCHANGED <<checks, cbval>>
    /\ UNCHANGED prev

\* A group that takes the result of a nested group for True.
GroupResumeTrustsGroups ==
    /\ status = "running"
    /\ stack # <<>>
    /\ Top.kind = "group"
    /\ ret # "none"
    /\ IF MemberFailed(ret) /\ checks[Top.id].items[Top.i - 1] \in CheckIds
       THEN /\ stack' = Pop
            /\ ret' = "False"
       ELSE /\ stack' = stack
            /\ ret' = "none"
    /\ UNCHANGED <<checks, status, checkExc, trace, cbval>>
    /\ UNCHANGED prev

\* A group that runs a failed member again.
GroupResumeRetries ==
    /\ status = "running"
    /\ stack # <<>>
    /\ Top.kind = "group"
    /\ ret # "none"
    /\ IF MemberFailed(ret)
       THEN stack' = [stack EXCEPT ![Len(stack)].i = @ - 1]
       ELSE stack' = stack
    /\ ret' = "none"
    /\ UNCHANGED <<checks, status, checkExc, trace, cbval>>
    /\ UNCHANGED prev

\* ModuleCheckGroup.run: a member's run() has returned.
GroupResume ==
    /\ status = "running"
    /\ stack # <<>>
    /\ Top.kind = "group"
    /\ ret # "none"
    /\ IF MemberFailed(ret)
       THEN /\ stack' = Pop
            /\ ret' = "False"
       ELSE /\ stack' = stack
            /\ ret' = "none"
    /\ UNCHANGED <<checks, status, checkExc, trace, cbval>>
    /\ UNCHANGED prev

\* The top-level run() has returned to its caller.
Return ==
    /\ status = "running"
    /\ stack = <<>>
    /\ status' = IF ret = "True" THEN "succeeded" ELSE "failed"
    /\ UNCHANGED <<checks, stack, ret, checkExc, trace, cbval>>
    /\ UNCHANGED prev

\* Number of times a caller runs the same check.
MaxRuns == 2

\* A second run() that reports the result of the first without calling
\* check_cb or a hook again.
RunAgainCached ==
    /\ status \in {"succeeded", "failed"}
    /\ prev.n + 1 < MaxRuns
    /\ \E c \in CheckIds :
         /\ trace[1].arg = CheckTitle(c)
         /\ trace' = <<Ev("info", CheckTitle(c))>>
    /\ prev' = [n |-> prev.n + 1,
                total |-> prev.total + 1,
                cbval |-> cbval, ret |-> ret,
                hooks |-> SelectSeq(trace, LAMBDA e :
                              e.kind \in {"success_cb", "failure_cb"})]
    /\ UNCHANGED <<checks, stack, ret, status, checkExc, cbval>>

\* The caller of a check's run() that has returned calls run() on that check
\* again: the trace starts afresh with the title, prev keeps what the run
\* before came to.
RunAgain ==
    /\ status \in {"succeeded", "failed"}
    /\ prev.n + 1 < MaxRuns
    /\ \E c \in CheckIds :
         /\ trace[1].arg = CheckTitle(c)
         /\ stack' = <<Frame(c)>>
         /\ trace' = <<Ev("info", CheckTitle(c))>>
    /\ prev' = [n |-> prev.n + 1,
                total |-> prev.total
                          + Len(SelectSeq(trace, LAMBDA e :
                                    e.kind \in {"success_cb", "failure_cb"})),
                cbval |-> cbval, ret |-> ret,
                hooks |-> SelectSeq(trace, LAMBDA e :
                              e.kind \in {"success_cb", "failure_cb"})]
    /\ status' = "running"
    /\ ret' = "none"
    /\ UNCHANGED <<checks, checkExc, cbval>>

(***************************************************************************)
(* A caller outside the module calls one of the two queries directly: the  *)
(* command runs and answers, then the function handles the answer.         *)
(***************************************************************************)
VARIABLES
    adapterCall,    \* the call: fn (the function, "none" before the call),
                    \* name (of get_pod_status), must_exist (of the selector
                    \* query) and state ("idle", "running", "returned")
    adapterAnswer,  \* what the kubectl commands of the call answered
    adapterResult   \* what the call came to: exc (the exception, or "none"),
                    \* isNone (it returned None), items (the PodStatus values
                    \* returned or yielded), log (the levels of its entries)

adapterVars == <<adapterCall, adapterAnswer, adapterResult>>

vars == <<samplerVars, checksVars, adapterVars>>

AdapterInit ==
    /\ adapterCall = [fn |-> "none", name |-> 0, must_exist |-> FALSE,
                      state |-> "idle"]
    /\ adapterAnswer = [ok |-> TRUE, output |-> <<>>]
    /\ adapterResult = [exc |-> "none", isNone |-> FALSE, items |-> <<>>,
                        log |-> <<>>]

\* get_pod_status(full_pod_name) is called; its command answers.
CallIdentity ==
    /\ adapterCall.state = "idle"
    /\ \E n \in PodNames :
         /\ adapterCall' = [fn |-> "get_pod_status", name |-> n,
                            must_exist |-> FALSE, state |-> "running"]
         /\ adapterAnswer' \in IdentityAnswers(n)
    /\ UNCHANGED adapterResult

\* get_pod_status returns or raises.
ReturnIdentity ==
    /\ adapterCall.state = "running"
    /\ adapterCall.fn = "get_pod_status"
    /\ LET res == get_pod_status(adapterAnswer)
       IN  adapterResult' =
               [exc |-> res.exc, isNone |-> res.isNone,
                items |-> IF res.exc = "none" /\ ~res.isNone
                          THEN <<res.pod>> ELSE <<>>,
                log |-> res.log]
    /\ adapterCall' = [adapterCall EXCEPT !.state = "returned"]
    /\ UNCHANGED adapterAnswer

\* get_pods_status_iterator_by_labels(label_selector, host_ip_filter,
\* must_exist) is called and iterated; its commands answer.
CallSelector ==
    /\ adapterCall.state = "idle"
    /\ \E must_exist \in BOOLEAN :
         adapterCall' = [fn |-> "get_pods_status_iterator_by_labels",
                         name |-> 0, must_exist |-> must_exist,
                         state |-> "running"]
    /\ adapterAnswer' \in SelectorAnswers
    /\ UNCHANGED adapterResult

\* The generator of get_pods_status_iterator_by_labels finishes or raises.
ReturnSelector ==
    /\ adapterCall.state = "running"
    /\ adapterCall.fn = "get_pods_status_iterator_by_labels"
    /\ LET res == get_pods_status_iterator_by_labels(adapterAnswer,
                                                      adapterCall.must_exist)
       IN  adapterResult' = [exc |-> res.exc, isNone |-> FALSE,
                             items |-> res.pods, log |-> res.log]
    /\ adapterCall' = [adapterCall EXCEPT !.state = "returned"]
    /\ UNCHANGED adapterAnswer

(***************************************************************************)
(* The specifications: a sampling session; the construction and the runs   *)
(* of checks and groups; one direct call of a query.                       *)
(***************************************************************************)
Init == SamplerInit /\ ChecksInit /\ AdapterInit

SamplerNext ==
    \/ SelectorQuery /\ UNCHANGED <<checksVars, adapterVars>>
    \/ ProcessPod /\ UNCHANGED <<checksVars, adapterVars>>
    \/ Sleep /\ UNCHANGED <<checksVars, adapterVars>>
    \/ EndRounds /\ UNCHANGED <<checksVars, adapterVars>>
    \/ YieldRecord /\ UNCHANGED <<checksVars, adapterVars>>
    \/ SamplerReturn /\ UNCHANGED <<checksVars, adapterVars>>

SamplerSpec == Init /\ [][SamplerNext]_vars

ChecksNext ==
    \/ GroupInit /\ UNCHANGED <<samplerVars, adapterVars>>
    \/ add /\ UNCHANGED <<samplerVars, adapterVars>>
    \/ Run /\ UNCHANGED <<samplerVars, adapterVars>>
    \/ CheckBody /\ UNCHANGED <<samplerVars, adapterVars>>
    \/ GroupNext /\ UNCHANGED <<samplerVars, adapterVars>>
    \/ GroupResume /\ UNCHANGED <<samplerVars, adapterVars>>
    \/ Return /\ UNCHANGED <<samplerVars, adapterVars>>
    \/ RunAgain /\ UNCHANGED <<samplerVars, adapterVars>>

ChecksSpec == Init /\ [][ChecksNext]_vars

\* A run() that has been called goes on: the interpreter executes its next
\* statement.
RunStep ==
    /\ CheckBody \/ GroupNext \/ GroupResume \/ Return
    /\ UNCHANGED <<samplerVars, adapterVars>>

ChecksFairSpec == ChecksSpec /\ WF_vars(RunStep)

AdapterNext ==
    \/ CallIdentity /\ UNCHANGED <<samplerVars, checksVars>>
    \/ ReturnIdentity /\ UNCHANGED <<samplerVars, checksVars>>
    \/ CallSelector /\ UNCHANGED <<samplerVars, checksVars>>
    \/ ReturnSelector /\ UNCHANGED <<samplerVars, checksVars>>

AdapterSpec == Init /\ [][AdapterNext]_vars

(***************************************************************************)
(* Properties of the check orchestration (under ChecksSpec).               *)
(***************************************************************************)
IsPrefix(s, t) == Len(s) <= Len(t) /\ \A i \in 1 .. Len(s) : s[i] = t[i]

\* The checks whose check_cb was called, in order.
Calls == SelectSeq(trace, LAMBDA e : e.kind = "check_cb")

\* The hook calls, in order.
Hooks == SelectSeq(trace, LAMBDA e : e.kind \in {"success_cb", "failure_cb"})

\* The returns of ModuleCheck.run, in order.
Returns == SelectSeq(trace, LAMBDA e : e.kind = "return")

\* The log records, in order.
LogLines == SelectSeq(trace, LAMBDA e : e.kind \in {"info", "error"})

CheckHeaders ==
    SelectSeq(trace, LAMBDA e : e.kind = "info"
                                /\ \E c \in CheckIds : e.arg = "-- " \o c \o " --")

OutcomeLines ==
    SelectSeq(trace, LAMBDA e :
        \/ e.kind = "info" /\ e.arg = "-- Success --\n"
        \/ e.kind = "error" /\ e.arg = "-- Failure --\n")

\* The top-level call is G.run().
GroupRun == trace # <<>> /\ trace[1].arg = "== G =="

\* The top-level call is c.run().
CheckRun(c) == trace # <<>> /\ trace[1].arg = "-- " \o c \o " --"

\* Every member of G is a ModuleCheck.
FlatG == \A i \in 1 .. Len(checks["G"].items) : checks["G"].items[i] \in CheckIds

Finished == status \in {"succeeded", "failed"}

\* C1: in a run of a group of checks [c1..cn], the checks are invoked in
\* list order, each once; once the run() of the check at index k has
\* returned False, k checks have been invoked and no further one ever is,
\* and the group's run() returns False.
C1_ShortCircuit ==
    (GroupRun /\ FlatG) =>
        /\ IsPrefix([i \in 1 .. Len(Calls) |-> Calls[i].arg], checks["G"].items)
        /\ \A k \in 1 .. Len(Returns) :
             Returns[k].arg # "True" =>
                 /\ k = Len(Returns)
                 /\ Len(Calls) = k
                 /\ status \in {"running", "failed"}
                 /\ ret = "False"
        /\ status = "failed" => ret = "False"

\* A group of three checks has failed at its second check.
C1_Witness ==
    /\ GroupRun /\ FlatG
    /\ status = "failed"
    /\ Len(checks["G"].items) = 3
    /\ Len(Calls) = 2
    /\ Returns[1].arg = "True"

\* C3: a finished ModuleCheck.run() has called check_cb exactly once and
\* exactly one hook: success_cb and the result True when check_cb returned
\* a truthy value, failure_cb and the result False when it returned a falsy
\* one.
C3_OneMatchingHook ==
    \A c \in CheckIds :
        (CheckRun(c) /\ Finished) =>
            /\ Calls = <<Ev("check_cb", c)>>
            /\ cbval \in {"True", "1"} =>
                   /\ Hooks = <<Ev("success_cb", c)>>
                   /\ ret = "True" /\ status = "succeeded"
            /\ cbval \in {"False", "None"} =>
                   /\ Hooks = <<Ev("failure_cb", c)>>
                   /\ ret = "False" /\ status = "failed"
            /\ cbval \in {"True", "1", "False", "None"}

\* A check whose check_cb returned a truthy value other than True has run.
C3_Witness == CheckRun("c1") /\ Finished /\ cbval = "1" /\ ret = "True"

\* C4: the run() of a group with no checks (made with an empty list, or made
\* without a checks argument and never added to) returns True and does not
\* raise.
C4_EmptyGroupSucceeds ==
    (GroupRun /\ Len(checks["G"].items) = 0 /\ status # "running") =>
        status = "succeeded" /\ ret = "True" /\ checkExc = "none"

\* C10: every check_cb call comes right after the header of its check and,
\* when it returns, is followed by the hook and one outcome line; a group's
\* header is logged once, first; after a run that is over or between two
\* checks there are as many check headers as outcome lines; and a group of
\* checks that failed at index k has logged exactly k check headers and k
\* outcome lines, and called k hooks.
C10_LogTrace ==
    /\ \A p \in 1 .. Len(trace) :
         trace[p].kind = "check_cb" =>
             /\ p > 1
             /\ trace[p - 1] = Ev("info", "-- " \o trace[p].arg \o " --")
             /\ (status # "raised" \/ p < Len(trace)) =>
                    /\ p + 3 <= Len(trace)
                    /\ \/ /\ trace[p + 1] = Ev("success_cb", trace[p].arg)
                          /\ trace[p + 2] = Ev("info", "-- Success --\n")
                          /\ trace[p + 3] = Ev("return", "True")
                       \/ /\ trace[p + 1] = Ev("failure_cb", trace[p].arg)
                          /\ trace[p + 2] = Ev("error", "-- Failure --\n")
                          /\ trace[p + 3] = Ev("return", "False")
    /\ Len(OutcomeLines) = Len(Returns)
    /\ Len(CheckHeaders) = Len(Calls)
                           + (IF stack # <<>> /\ Top.kind = "check" THEN 1 ELSE 0)
    /\ GroupRun =>
           Len(SelectSeq(trace, LAMBDA e : e = Ev("info", "== G =="))) = 1
    /\ \A c \in CheckIds :
           (CheckRun(c) /\ Finished) => Len(LogLines) = 2
    /\ (GroupRun /\ FlatG /\ status = "failed") =>
           /\ Len(CheckHeaders) = Len(Returns)
           /\ Len(OutcomeLines) = Len(Returns)
           /\ Len(Hooks) = Len(Returns)
           /\ Returns[Len(Returns)].arg = "False"
           /\ checks["G"].items[Len(Returns)] = Calls[Len(Calls)].arg

\* A group of three checks whose second check failed: two check headers.
C10_Witness ==
    /\ GroupRun /\ FlatG
    /\ status = "failed"
    /\ Len(checks["G"].items) = 3
    /\ Len(CheckHeaders) = 2
    /\ Len(OutcomeLines) = 2

(***************************************************************************)
(* Properties of the sampler (under SamplerSpec).                          *)
(***************************************************************************)
YieldedNames == {yielded[i].name : i \in 1 .. Len(yielded)}

\* C2: when the session is over, a name for which some round's identity
\* query answered not found or a phase other than Running is yielded with a
\* status other than Running.
C2_StickyMerge ==
    pc = "done" =>
        \A i \in 1 .. Len(yielded) :
            idSeen[yielded[i].name] # {} => yielded[i].status # "Running"

\* C5: a session in which an identity command has failed outright does not
\* end with an exception.
C5_IdentityFailureTolerated == idFailed => (pc # "raised" /\ exc = "none")

\* C6: no name is yielded twice, only observed names are yielded, and when
\* the session is over every observed name has been yielded.
C6_Completeness ==
    /\ \A i, j \in 1 .. Len(yielded) :
           yielded[i].name = yielded[j].name => i = j
    /\ YieldedNames \subseteq observed
    /\ pc = "done" => (YieldedNames = observed
                       /\ Len(yielded) = Cardinality(observed))

\* Two names were observed, the last round returned no pod, both are yielded.
C6_Witness ==
    /\ pc = "done"
    /\ sel = "empty"
    /\ Cardinality(observed) = 2
    /\ Len(yielded) = 2

\* C7: a round whose selector command fails, or prints nothing, or whose
\* host filter prints nothing, raises nothing, yields no pod, leaves the
\* dict as it was and is followed by the next round.
C7_FailedRoundNoObservation ==
    [][/\ (Len(queryTimes') = Len(queryTimes) + 1
           /\ sel' \in {"failed", "empty", "filter_empty"}) =>
              /\ pc' = "pods" /\ pending' = <<>> /\ exc' = "none"
              /\ pod_status_map' = pod_status_map
              /\ observed' = observed
       /\ (pc = "pods" /\ pending = <<>>
           /\ sel \in {"failed", "empty", "filter_empty"}) =>
              /\ pc' = "round"
              /\ attempt' = attempt + 1
              /\ pod_status_map' = pod_status_map
              /\ observed' = observed]_vars

\* The selector command has failed in a round after one that recorded a pod.
C7_Witness ==
    /\ pc = "pods"
    /\ sel = "failed"
    /\ DOMAIN pod_status_map # {}
    /\ attempt >= 1

\* C8: a session makes at most 5 selector queries, each 2 time units after
\* the one before; it has made exactly 5, and ended 5 rounds, when it is
\* over and before it yields anything.
C8_FiveRounds ==
    /\ Len(queryTimes) <= 5
    /\ \A i \in 1 .. Len(queryTimes) - 1 : queryTimes[i + 1] - queryTimes[i] = 2
    /\ (pc \in {"yield", "done"} \/ yielded # <<>>) =>
           /\ Len(queryTimes) = 5
           /\ attempt = 5
           /\ clock = queryTimes[5] + 2

\* A session is over and has yielded a record.
C8_Witness == pc = "done" /\ yielded # <<>> /\ Len(stdout) = 6

\* C9: when the session is over, a yielded name whose identity queries all
\* answered Running has status Running, and a yielded status other than
\* Running is one that some identity query of that name gave (Not Running
\* for not found, else the phase).
C9_NoFalseAlarm ==
    pc = "done" =>
        \A i \in 1 .. Len(yielded) :
            LET r == yielded[i]
            IN  /\ idSeen[r.name] = {} => r.status = "Running"
                /\ r.status # "Running" =>
                       \/ r.status = "Not Running" /\ "NotFound" \in idSeen[r.name]
                       \/ r.status # "Not Running" /\ r.status \in idSeen[r.name]

\* A pod the selector query last printed as Pending, always Running for the
\* identity query, is yielded beside one that is not Running.
C9_Witness ==
    /\ pc = "done"
    /\ \E i, j \in 1 .. Len(yielded) :
         /\ idSeen[yielded[i].name] = {}
         /\ yielded[i].ready_status = "0/1"
         /\ yielded[i].status = "Running"
         /\ yielded[j].status = "CrashLoopBackOff"

(***************************************************************************)
(* Further properties of the check orchestration (under ChecksSpec).       *)
(***************************************************************************)
\* C11 as claimed: no exception of a check_cb leaves run().
C11_NeverPropagates == cbval = "raise" => status # "raised"

\* C11 as amended: run() catches nothing.  When check_cb returns, the run()
\* of the check returns True or False; when check_cb raises, the exception
\* leaves every run() in progress: no hook is called for that check, no
\* outcome line is logged for it and the caller gets no return value.
C11_RaisePropagates ==
    /\ cbval = "raise" =>
           /\ status = "raised"
           /\ checkExc = "CheckLogicError"
           /\ stack = <<>>
           /\ trace[Len(trace)].kind = "check_cb"
           /\ Len(Hooks) = Len(Calls) - 1
           /\ Len(OutcomeLines) = Len(Calls) - 1
    /\ \A c \in CheckIds :
           (CheckRun(c) /\ status # "running") =>
               \/ cbval = "raise" /\ status = "raised"
               \/ cbval # "raise" /\ Finished /\ ret \in {"True", "False"}

\* The check_cb of a check run on its own has raised.
C11_Witness == CheckRun("c1") /\ cbval = "raise" /\ status = "raised"

\* C12: a ModuleCheck keeps nothing between runs.  A second run() of the
\* same check calls a hook again (one hook call per run in all), and when
\* check_cb returns the same value as in the run before, the result and the
\* hook are the same as before.
C12_StatelessRuns ==
    \A c \in CheckIds :
        (CheckRun(c) /\ Finished /\ prev.n >= 1) =>
            /\ Len(Calls) = 1
            /\ Len(Hooks) = 1
            /\ prev.total + Len(Hooks) = prev.n + 1
            /\ prev.cbval = cbval => (ret = prev.ret /\ Hooks = prev.hooks)

\* A check has been run twice and its check_cb returned None both times.
C12_Witness ==
    /\ CheckRun("c1") /\ Finished
    /\ prev.n = 1
    /\ prev.cbval = "None" /\ cbval = "None"
    /\ prev.hooks = <<Ev("failure_cb", "c1")>>

(***************************************************************************)
(* Properties of the two queries called directly (under AdapterSpec).      *)
(***************************************************************************)
IdentityReturned ==
    adapterCall.state = "returned" /\ adapterCall.fn = "get_pod_status"

SelectorReturned ==
    /\ adapterCall.state = "returned"
    /\ adapterCall.fn = "get_pods_status_iterator_by_labels"

\* C13: when the host-filter command of the selector query fails, the query
\* gives an empty result and no exception reaches its caller.
C13_FilterFailureRecovered ==
    (SelectorReturned /\ adapterAnswer.ok /\ adapterAnswer.output # <<>>
        /\ ~adapterAnswer.filter_ok) =>
        adapterResult.exc = "none" /\ adapterResult.items = <<>>

\* C14: get_pod_status raises RuntimeError, and does not return, exactly
\* when its command succeeds and prints nothing; it returns None without
\* raising when the command fails; otherwise it returns one PodStatus, made
\* of the fields of the printed line.
C14_IdentityOutcomes ==
    IdentityReturned =>
        LET kind == IF ~adapterAnswer.ok THEN "failed"
                    ELSE IF adapterAnswer.output = <<>> THEN "NotFound"
                    ELSE "match"
            r == adapterResult
        IN  /\ kind = "NotFound" =>
                   r.exc = "RuntimeError" /\ ~r.isNone /\ r.items = <<>>
            /\ kind = "failed" =>
                   r.exc = "none" /\ r.isNone /\ r.items = <<>>
            /\ kind = "match" =>
                   /\ r.exc = "none" /\ ~r.isNone
                   /\ Len(r.items) = 1
                   /\ r.items[1].name = adapterCall.name
                   /\ r.items[1].status = adapterAnswer.output[3]
                   /\ r.items[1].ready_status = adapterAnswer.output[2]
                   /\ r.items[1].node_name = adapterAnswer.output[4]
                   /\ r.items[1].namespace = adapterAnswer.output[5]

\* The three outcomes of the identity query, one per call.
C14_Witness ==
    /\ IdentityReturned
    /\ adapterAnswer.ok /\ adapterAnswer.output = <<>>
    /\ adapterResult.exc = "RuntimeError"
    /\ ~adapterResult.isNone

\* C15: when the selector command prints nothing, the caller of
\* get_pods_status_iterator_by_labels gets no item and no exception, and an
\* error is logged if and only if must_exist is true.
C15_NoMatch ==
    (SelectorReturned /\ adapterAnswer.ok /\ adapterAnswer.output = <<>>) =>
        /\ adapterResult.items = <<>>
        /\ adapterResult.exc = "none"
        /\ adapterCall.must_exist => adapterResult.log = <<"error">>
        /\ ~adapterCall.must_exist => adapterResult.log = <<>>

\* The selector query found no pod and must_exist was not asked for.
C15_Witness ==
    /\ SelectorReturned
    /\ adapterAnswer.ok /\ adapterAnswer.output = <<>>
    /\ ~adapterCall.must_exist
    /\ adapterResult.log = <<>>

(***************************************************************************)
(* Properties of the records of the sampler (under SamplerSpec).           *)
(***************************************************************************)
\* C16: the status a round records for a pod the selector query returned is
\* "Not Running" when the identity query raised not-found, "Running" when
\* it returned phase "Running", and otherwise the phase the identity query
\* returned, whatever phase the selector query printed.
C16_EffectiveStatus ==
    (lastId.name # 0 /\ lastId.kind # "failed") =>
        /\ lastId.name \in DOMAIN pod_status_map
        /\ pod_status_map[lastId.name].status =
               IF lastId.kind = "NotFound" THEN "Not Running"
               ELSE IF lastId.kind = "Running" THEN "Running"
               ELSE lastId.kind

\* A round recorded the phase of the identity query, which is not the phase
\* the selector query printed.
C16_Witness ==
    /\ lastId.name # 0
    /\ lastId.kind = "CrashLoopBackOff"
    /\ lastId.phase = "Running"
    /\ pod_status_map[lastId.name].status = "CrashLoopBackOff"

\* C18: the record a round writes for a pod has the name, ready_status,
\* node_name and namespace of the record the selector query returned in
\* that round, the round leaves the records of all other names as they
\* were, nothing else writes a record, and every yielded PodStatus is the
\* record of its name.
C18_OnlyStatusOverridden ==
    [][/\ IF pc = "pods" /\ pending # <<>> /\ pc' = "pods"
          THEN LET pod_status == Head(pending)
                   merged == pod_status_map'[pod_status.name]
               IN  /\ DOMAIN pod_status_map' =
                          DOMAIN pod_status_map \cup {pod_status.name}
                   /\ merged.name = pod_status.name
                   /\ merged.ready_status = pod_status.ready_status
                   /\ merged.node_name = pod_status.node_name
                   /\ merged.namespace = pod_status.namespace
                   /\ \A n \in DOMAIN pod_status_map \ {pod_status.name} :
                          pod_status_map'[n] = pod_status_map[n]
          ELSE pod_status_map' = pod_status_map
       /\ \A i \in DOMAIN yielded' :
              /\ yielded'[i].name \in DOMAIN pod_status_map'
              /\ yielded'[i] = pod_status_map'[yielded'[i].name]
      ]_vars

\* The last round observed no pod, and a record of an earlier round is
\* yielded with the fields of its selector line and the status of its
\* identity query.
C18_Witness ==
    /\ pc = "done"
    /\ sel = "empty"
    /\ Len(yielded) = 2
    /\ \E i \in DOMAIN yielded :
           /\ yielded[i].ready_status = "0/1"
           /\ yielded[i].node_name = "node-b"
           /\ yielded[i].status = "Running"

(***************************************************************************)
(* Properties of groups with nested groups (under ChecksSpec and           *)
(* ChecksFairSpec).                                                        *)
(***************************************************************************)
\* The checks of a member list in the order they are due, a nested group
\* standing for its own list.
RECURSIVE Flatten(_)
Flatten(items) ==
    IF items = <<>> THEN <<>>
    ELSE (IF Head(items) \in CheckIds THEN <<Head(items)>>
          ELSE Flatten(checks[Head(items)].items))
         \o Flatten(Tail(items))

CallNames == [i \in 1 .. Len(Calls) |-> Calls[i].arg]

\* G has the group H among its members.
NestedG == \E i \in 1 .. Len(checks["G"].items) : checks["G"].items[i] = "H"

\* C17: in a run of a group G that has a group H among its members, the
\* checks of G and H are invoked in member order, H standing for its list;
\* once a check has not returned True, no further check is invoked,
\* whether in H or after H in G, and G.run() returns False; G.run() returns
\* True only when every check of every member was invoked and returned
\* True.
C17_NestedGroups ==
    (GroupRun /\ NestedG) =>
        /\ IsPrefix(CallNames, Flatten(checks["G"].items))
        /\ \A k \in 1 .. Len(Returns) :
             Returns[k].arg # "True" =>
                 /\ k = Len(Returns)
                 /\ Len(Calls) = k
                 /\ status \in {"running", "failed"}
                 /\ ret = "False"
        /\ status = "failed" =>
               /\ ret = "False"
               /\ Returns # <<>> /\ Returns[Len(Returns)].arg = "False"
        /\ status = "succeeded" =>
               /\ ret = "True"
               /\ CallNames = Flatten(checks["G"].items)
               /\ Len(Returns) = Len(Calls)
               /\ \A k \in 1 .. Len(Returns) : Returns[k].arg = "True"

\* G = [H, c], H = [c, c']: the first check of H has failed, and with it H
\* and G; neither the second check of H nor the check after H was invoked.
C17_Witness ==
    /\ GroupRun
    /\ status = "failed"
    /\ Len(checks["G"].items) = 2
    /\ checks["G"].items[1] = "H"
    /\ checks["G"].items[2] \in CheckIds
    /\ Len(checks["H"].items) = 2
    /\ Len(Calls) = 1

\* What holds in every state of a run of G.
GroupRunInvariant ==
    GroupRun =>
        /\ status \in {"running", "succeeded", "failed", "raised"}
        /\ IsPrefix(CallNames, Flatten(checks["G"].items))
        /\ Len(Returns) <= Len(Calls)
        /\ status = "succeeded" <=>
               /\ stack = <<>> /\ status # "running" /\ checkExc = "none"
               /\ CallNames = Flatten(checks["G"].items)
               /\ Len(Returns) = Len(Calls)
               /\ \A k \in 1 .. Len(Returns) : Returns[k].arg = "True"
        /\ status = "succeeded" => ret = "True"
        /\ status = "failed" => ret = "False"

\* What holds of every step: the status moves forward only, a finished run
\* of G invokes nothing more, and a list changes only by add, at its end and
\* before the run.
GroupRunStep ==
    /\ (GroupRun' /\ status' # status) =>
           \/ status = "pending" /\ status' = "running"
           \/ status = "running" /\ status' \in {"succeeded", "failed", "raised"}
    /\ (GroupRun /\ status # "running") => UNCHANGED <<status, trace, ret>>
    /\ \A g \in GroupIds :
           checks'[g] # checks[g] =>
               /\ status = "pending"
               /\ \/ checks[g].state = "absent" /\ checks'[g].items = <<>>
                  \/ \E m \in Members(g) :
                         checks'[g].items = Append(checks[g].items, m)

\* C19: a run of a group goes from pending to running and from there to
\* exactly one of succeeded (it returned True; reached if and only if every
\* check of the list was invoked and returned True) and failed (it returned
\* False), or ends with the exception of a member that did not return; a
\* running group stops running; a finished run invokes nothing again; the
\* checks are invoked at most once per place in the list, in the order they
\* were added.
C19_GroupStateMachine ==
    /\ []GroupRunInvariant
    /\ [][GroupRunStep]_vars
    /\ (GroupRun /\ status = "running") ~> (status # "running")

\* G = [c1, c2, c1] has run to success: three invocations, in list order.
C19_Witness ==
    /\ GroupRun
    /\ status = "succeeded"
    /\ checks["G"].items = <<"c1", "c2", "c1">>
    /\ CallNames = <<"c1", "c2", "c1">>

====
